---- MODULE Spec2Model ----
(***************************************************************************)
(* A model of biapol_taurus.ProjectFileTransfer                            *)
(* (src/biapol_taurus/_project_file_transfer.py).                          *)
(*                                                                         *)
(* Paths are sequences of components.  A file name handed to a method is   *)
(* a sequence of tokens in which the separators "/" and "\\" are tokens of *)
(* their own, so that pathlib's name and str.replace can be computed.      *)
(* The three storage tiers are separate stores: the fileserver tree and    *)
(* the project-space tree are keyed by relative path, the cache (the       *)
(* temporary directory inside the cache workspace) by file name, and       *)
(* `local` holds the files of the computing node under the name one gives  *)
(* them.                                                                   *)
(* A file is a record [c, t]: its content and its modification time.       *)
(*                                                                         *)
(* The datamover commands (dtrsync, dtcp) are external processes: a call   *)
(* launches a job, the job runs in an action of its own (JobRun), and the  *)
(* call goes on once the job is done.                                      *)
(***************************************************************************)
EXTENDS Integers, Sequences, FiniteSets, TLC

VARIABLES
    source_fileserver_dir,      \* Path: the fileserver root
    target_project_space_dir,   \* Path: the project-space root
    fileserver,                 \* the fileserver tree: relative path -> file
    project,                    \* the project-space tree: relative path -> file
    cache,                      \* temporary_directory: file name -> file
    local,                      \* the files of the computing node: name as given -> file
    writable,                   \* the directories os.access finds writable on the node
    scratch,                    \* the content of the private scratch file of a save
    dirs,                       \* the directories that exist on the project filesystem
    now,                        \* the clock that stamps writes
    jobs,                       \* the launched processes: id -> job
    call,                       \* per caller thread: the call in progress / its outcome
    staged,                     \* history: per name, the first staging by get_file
    saved,                      \* history: the save_file call that returned last
    session                     \* temporary_directory and the cache workspace of the instance

vars == << source_fileserver_dir, target_project_space_dir, fileserver, project,
           cache, local, writable, scratch, dirs, now, jobs, call, staged, saved,
           session >>

----------------------------------------------------------------------------
(* Bounds *)

\* the last clock value: at most MaxTime writes of files by the environment
\* and by save functions
MaxTime == 2

\* the number of process slots (jobs that exist at the same time)
MaxJobs == 2

\* the longest time, in units of the clock of a wait, a caller is seen blocked
MaxWait == 2

----------------------------------------------------------------------------
(* Files and names *)

NoFile == [c |-> 0, t |-> 0]

\* a file that was on the computing node before the instance was made
GivenFile == [c |-> -1, t |-> 0]

\* the relative paths of the two trees
TreePaths == { <<"a">>, <<"d", "/", "a">> }

\* the file names of the cache directory
CacheNames == { <<"a">> }

\* the names a caller passes to get_file
FileNames == { <<"a">>, <<"d", "/", "a">>, <<"d", "\\", "a">> }

\* the names that may be regular files exactly as given
LocalNames == { <<"a">>, <<"d", "/", "a">> }

\* the path of temporary_directory
CacheDir == << "scratch", "cache", "tmp" >>

FileserverRoots == { <<"grp">>, <<"grp", "g_group">>, <<"grp", "g_group", "userdir">> }
ProjectRoots == { <<"projects">>, <<"projects", "p_proj">>, <<"projects", "p_proj", "userdir">> }

Directions == { "from fileserver", "to fileserver" }

\* the values of timeout_in_s a caller passes: the default (endless) and a
\* timeout of one unit of time
Timeouts == { -1, 1 }

\* timeout_in_s: float = -1
DefaultTimeout == -1

EmptyTree == [n \in TreePaths |-> NoFile]
EmptyCache == [n \in CacheNames |-> NoFile]

\* Path.is_file() of <store root>/n
IsFile(store, n) == n \in DOMAIN store /\ store[n] # NoFile

Files(store) == { n \in DOMAIN store : store[n] # NoFile }

Max(S) == CHOOSE x \in S : \A y \in S : y <= x

\* pathlib: PurePosixPath.name, the part after the last "/"
PathName(n) ==
    LET seps == { i \in 1..Len(n) : n[i] = "/" }
    IN  IF seps = {} THEN n ELSE SubSeq(n, Max(seps) + 1, Len(n))

\* str.replace("\\", "/")
ReplaceBackslash(n) == [i \in 1..Len(n) |-> IF n[i] = "\\" THEN "/" ELSE n[i]]

\* pathlib: Path.parent and list(Path.parents), nearest first
Parent(p) == SubSeq(p, 1, Len(p) - 1)
Parents(p) == [i \in 1..Len(p) |-> SubSeq(p, 1, Len(p) - i)]
AllParents(p) == { SubSeq(p, 1, i) : i \in 0..(Len(p) - 1) }

\* the directories from the root down to p
Chain(p) == AllParents(p) \cup { p }

\* a path is under dir (or is dir)
Under(p, dir) == Len(p) >= Len(dir) /\ SubSeq(p, 1, Len(dir)) = dir

\* the components of a path string
Components(s) == SelectSeq(s, LAMBDA x : x # "/")

\* the directory tempfile.TemporaryDirectory() makes for the constructor
TemporaryDir == << "tmp", "tmpdir" >>

\* dir / name
Join(dir, n) == [dir |-> dir, rel |-> n]

\* str(dir): the components behind separators
RECURSIVE Str(_)
Str(p) == IF Len(p) = 0 THEN <<>> ELSE Str(Parent(p)) \o << "/", p[Len(p)] >>

\* str(dir / name)
StrJoin(path) == Str(path.dir) \o << "/" >> \o path.rel

Range(s) == { s[i] : i \in 1..Len(s) }

----------------------------------------------------------------------------
(* Processes (taurus_datamover.Datamover) and calls *)

NoJob == [cmd |-> "none", argv |-> <<>>, state |-> "NONE", exit |-> -1,
          out |-> {}, drained |-> 0]

NoResult == [kind |-> "none", exc |-> "", value |-> <<>>]

NoPath == [dir |-> << >>, rel |-> << >>]

NoStage == [path |-> NoPath, c |-> 0]

IdleCall == [op |-> "none", pc |-> "idle", args |-> <<>>, job |-> 0, nlaunch |-> 0,
             waited |-> 0, pre |-> <<>>, result |-> NoResult]

Threads == DOMAIN call

\* no call is in progress on thread t
Idle(t) == call[t].pc \in { "idle", "done" }

\* the process table a call of thread t starts from: processes that are done
\* and that no other thread's call still holds are gone
Reaped(t) ==
    [j \in 1..MaxJobs |->
        IF jobs[j].state = "DONE" /\ \A u \in Threads \ {t} : call[u].job # j
        THEN NoJob ELSE jobs[j]]

FreeSlots(t) == { j \in 1..MaxJobs : Reaped(t)[j] = NoJob }

\* subprocess.Popen of a datamover command: the process runs on its own
Launched(t, j, cmd, argv) ==
    [Reaped(t) EXCEPT ![j] = [cmd |-> cmd, argv |-> argv, state |-> "RUNNING",
                              exit |-> -1, out |-> {}, drained |-> 0]]

\* the argument vector of the one command the call of t launched
Argv(t) == jobs[call[t].job].argv

\* no save_file call has returned since the last other call
NoSave == [filename |-> << >>, target |-> "", data |-> 0, direct |-> FALSE]

\* the instance after _initialize_tmp: the workspace is allocated, the
\* temporary directory in it exists and its finalizer is alive
NewSession == [finalizer |-> TRUE, subdir |-> TRUE, workspace |-> TRUE]

Snapshot == [fileserver |-> fileserver, project |-> project, cache |-> cache,
             local |-> local, staged |-> staged, saved |-> saved, dirs |-> dirs,
             session |-> session]

----------------------------------------------------------------------------
(* rsync, as dtrsync runs it on the export node *)

RsyncDryRun(argv) == "n" \in Range(argv[1])
RsyncUpdate(argv) == "u" \in Range(argv[1])
RsyncDelete(argv) == \E i \in 2..(Len(argv) - 2) : argv[i] = << "--delete" >>
RsyncSrc(argv) == argv[Len(argv) - 1]
RsyncDst(argv) == argv[Len(argv)]

\* the files rsync sends: new ones, and changed ones unless -u finds the
\* destination newer
RsyncSends(argv, src, dst) ==
    { n \in Files(src) :
        \/ ~IsFile(dst, n)
        \/ /\ dst[n] # src[n]
           /\ ~(RsyncUpdate(argv) /\ dst[n].t > src[n].t) }

RsyncRemoves(argv, src, dst) ==
    IF RsyncDelete(argv) THEN Files(dst) \ Files(src) ELSE {}

\* the destination tree after rsync -a (contents and times are preserved)
RsyncResult(argv, src, dst) ==
    IF RsyncDryRun(argv) THEN dst
    ELSE [n \in DOMAIN dst |->
            IF n \in RsyncSends(argv, src, dst) THEN src[n]
            ELSE IF n \in RsyncRemoves(argv, src, dst) THEN NoFile
            ELSE dst[n]]

\* rsync -v lists what it sends and what it deletes
RsyncOutput(argv, src, dst) == RsyncSends(argv, src, dst) \cup RsyncRemoves(argv, src, dst)

\* which tree an rsync source argument (with its trailing separator) names
SrcTree(arg) ==
    IF arg = Str(source_fileserver_dir) \o << "/" >> THEN "fileserver"
    ELSE IF arg = Str(target_project_space_dir) \o << "/" >> THEN "project"
    ELSE "other"

\* which tree an rsync destination argument names
DstTree(arg) ==
    IF arg \in { Str(source_fileserver_dir), Str(source_fileserver_dir) \o << "/" >> }
    THEN "fileserver"
    ELSE IF arg \in { Str(target_project_space_dir),
                      Str(target_project_space_dir) \o << "/" >> }
    THEN "project"
    ELSE "other"

TreeOf(name) == IF name = "fileserver" THEN fileserver ELSE project

\* the file a path string names: its tier and its path in the tier
Locate(p) ==
    IF \E n \in TreePaths : p = Str(target_project_space_dir) \o << "/" >> \o n
    THEN [tier |-> "project",
          rel |-> CHOOSE n \in TreePaths : p = Str(target_project_space_dir) \o << "/" >> \o n]
    ELSE IF \E n \in TreePaths : p = Str(source_fileserver_dir) \o << "/" >> \o n
    THEN [tier |-> "fileserver",
          rel |-> CHOOSE n \in TreePaths : p = Str(source_fileserver_dir) \o << "/" >> \o n]
    ELSE IF p \in LocalNames THEN [tier |-> "local", rel |-> p]
    ELSE [tier |-> "other", rel |-> << >>]

----------------------------------------------------------------------------
(* sync_with_fileserver *)

\* a slip: -u is left out whatever overwrite_newer says
BaseOptions_WithoutUpdateFlag(delete, overwrite_newer) ==
    << << "-", "a", "v" >> >>
    \o (IF delete THEN << << "--delete" >> >> ELSE << >>)

\* options = ['-av'] or ['-auv'], then '--delete'
BaseOptions(delete, overwrite_newer) ==
    << IF overwrite_newer THEN << "-", "a", "v" >> ELSE << "-", "a", "u", "v" >> >>
    \o (IF delete THEN << << "--delete" >> >> ELSE << >>)

\* a slip: the trailing separator is put on the destination
DirectionOptions_SeparatorOnDestination(direction) ==
    IF direction = "from_fileserver" \/ direction = "from fileserver"
    THEN << Str(source_fileserver_dir), Str(target_project_space_dir) \o << "/" >> >>
    ELSE << Str(target_project_space_dir), Str(source_fileserver_dir) \o << "/" >> >>

\* the source with a trailing separator, then the destination
DirectionOptions(direction) ==
    IF direction = "from_fileserver" \/ direction = "from fileserver"
    THEN << Str(source_fileserver_dir) \o << "/" >>, Str(target_project_space_dir) >>
    ELSE << Str(target_project_space_dir) \o << "/" >>, Str(source_fileserver_dir) >>

\* p.parent == list(p.parents)[-2]: the index is out of range when p has
\* fewer than two parents
ParentIsSecondToLast(p) ==
    IF Len(Parents(p)) < 2 THEN "IndexError"
    ELSE IF Parent(p) = Parents(p)[Len(Parents(p)) - 1] THEN "True"
    ELSE "False"

\* the condition of the whole-tree test: `and` evaluates the fileserver root
\* only when the project-space root passed
WholeTree ==
    IF ParentIsSecondToLast(target_project_space_dir) # "True"
    THEN ParentIsSecondToLast(target_project_space_dir)
    ELSE ParentIsSecondToLast(source_fileserver_dir)

\* confirmation_required, as it stands when im_sure is looked at
ConfirmationRequired(delete, overwrite_newer, dry_run) ==
    IF dry_run THEN FALSE
    ELSE IF WholeTree = "True" THEN TRUE
    ELSE delete \/ overwrite_newer

\* options[0] += 'n'
AddDryRun(options) == [options EXCEPT ![1] = Append(options[1], "n")]

\* the options after the `if dry_run:` block
OptionsAfterDryRun(options, dry_run) ==
    IF dry_run THEN AddDryRun(options) ELSE options

\* a slip: the forced dry run does not add its flag
OptionsLaunched_WithoutForcedFlag(options, forced) == options

\* the options after `if confirmation_required and not im_sure:`
OptionsLaunched(options, forced) ==
    IF forced THEN AddDryRun(options) ELSE options

SyncArgs == [direction : Directions, delete : BOOLEAN, overwrite_newer : BOOLEAN,
             im_sure : BOOLEAN, dry_run : BOOLEAN]

\* the call up to its dtrsync: the options, the tests, the launch
SyncStart(t, a) ==
    /\ Idle(t)
    /\ FreeSlots(t) # {}
    /\ LET options == OptionsAfterDryRun(
                          BaseOptions(a.delete, a.overwrite_newer)
                              \o DirectionOptions(a.direction), a.dry_run)
           forced  == ConfirmationRequired(a.delete, a.overwrite_newer, a.dry_run)
                          /\ ~a.im_sure
           j       == CHOOSE k \in FreeSlots(t) : \A i \in FreeSlots(t) : k <= i
       IN  IF WholeTree = "IndexError"
           THEN /\ jobs' = Reaped(t)
                /\ call' = [call EXCEPT ![t] =
                       [op |-> "sync_with_fileserver", pc |-> "done", args |-> a,
                        job |-> 0, nlaunch |-> 0, waited |-> 0, pre |-> Snapshot,
                        result |-> [kind |-> "raise", exc |-> "IndexError",
                                    value |-> <<>>]]]
           ELSE /\ jobs' = Launched(t, j, "dtrsync", OptionsLaunched(options, forced))
                /\ call' = [call EXCEPT ![t] =
                       [op |-> "sync_with_fileserver",
                        pc |-> IF forced THEN "dry_waitfor" ELSE "waitfor",
                        args |-> a, job |-> j, nlaunch |-> 1, waited |-> 0, pre |-> Snapshot,
                        result |-> NoResult]]
    /\ saved' = NoSave
    /\ UNCHANGED << session, source_fileserver_dir, target_project_space_dir, staged, fileserver,
                    project, cache, local, writable, scratch, dirs, now >>

\* waitfor(process, discard_output=False): returns once the process has ended
SyncWaitfor(t) ==
    /\ call[t].op = "sync_with_fileserver"
    /\ call[t].pc \in { "dry_waitfor", "waitfor" }
    /\ jobs[call[t].job].state = "DONE"
    /\ call' = [call EXCEPT ![t].pc =
                   IF call[t].pc = "dry_waitfor" THEN "dry_communicate" ELSE "communicate"]
    /\ UNCHANGED << session, source_fileserver_dir, target_project_space_dir, staged, saved, fileserver,
                    project, cache, local, writable, scratch, dirs, now, jobs >>

\* what the call ends with, given the output communicate() handed over
SyncOutcome(pc, out) ==
    IF pc = "dry_communicate"
    THEN [kind |-> "raise", exc |-> "ConfirmationRequiredException", value |-> out]
    ELSE [kind |-> "return", exc |-> "", value |-> out]

\* a slip: the output of the process is never read
Drain_NotRead(job) == job

\* process.communicate() reads the output of the process
Drain(job) == [job EXCEPT !.drained = @ + 1]

\* process.communicate(), then the raise or the return
SyncCommunicate(t) ==
    /\ call[t].op = "sync_with_fileserver"
    /\ call[t].pc \in { "dry_communicate", "communicate" }
    /\ jobs' = [jobs EXCEPT ![call[t].job] = Drain(@)]
    /\ call' = [call EXCEPT ![t].pc = "done",
                            ![t].result = SyncOutcome(call[t].pc, jobs[call[t].job].out)]
    /\ UNCHANGED << session, source_fileserver_dir, target_project_space_dir, staged, saved, fileserver,
                    project, cache, local, writable, scratch, dirs, now >>

----------------------------------------------------------------------------
(* The external processes and the other users of the two trees *)

\* a running dtrsync ends: the destination tree is what rsync makes of it
RsyncRun(j) ==
    LET argv == jobs[j].argv
        s    == SrcTree(RsyncSrc(argv))
        d    == DstTree(RsyncDst(argv))
        hit  == s # "other" /\ d # "other" /\ s # d
        res  == IF hit THEN RsyncResult(argv, TreeOf(s), TreeOf(d)) ELSE <<>>
    IN  /\ jobs[j].cmd = "dtrsync"
        /\ fileserver' = IF hit /\ d = "fileserver" THEN res ELSE fileserver
        /\ project' = IF hit /\ d = "project" THEN res ELSE project
        /\ jobs' = [jobs EXCEPT ![j].state = "DONE", ![j].exit = 0,
                                ![j].out = IF hit THEN RsyncOutput(argv, TreeOf(s), TreeOf(d))
                                           ELSE {}]
        /\ UNCHANGED << cache, scratch, dirs >>

\* the fileserver files a dtcp source argument can name
CpSources(arg) ==
    { n \in Files(fileserver) : arg = StrJoin(Join(source_fileserver_dir, n)) }

\* the cache entries a dtcp target argument can name
CpTargets(arg) == { b \in CacheNames : arg = StrJoin(Join(CacheDir, b)) }

\* a running dtcp -r ends: cp fails when its source does not exist, and else
\* writes the target with the content of the source
CpRun(j) ==
    LET argv == jobs[j].argv
        ok   == CpSources(argv[2]) # {} /\ CpTargets(argv[3]) # {}
        n    == CHOOSE x \in CpSources(argv[2]) : TRUE
        b    == CHOOSE x \in CpTargets(argv[3]) : TRUE
    IN  /\ jobs[j].cmd = "dtcp"
        /\ cache' = IF ok THEN [cache EXCEPT ![b] = [c |-> fileserver[n].c, t |-> now]]
                     ELSE cache
        /\ jobs' = [jobs EXCEPT ![j].state = "DONE", ![j].exit = IF ok THEN 0 ELSE 1]
        /\ UNCHANGED << fileserver, project, scratch, dirs >>

\* a file that is being written: cp has opened its target, which truncates
\* it, and has not written all of it yet
TornFile == [c |-> -2, t |-> 0]

\* a running dtcp -r whose source exists opens its target; the process goes
\* on running
CpOpen(j) ==
    LET argv == jobs[j].argv
        b    == CHOOSE x \in CpTargets(argv[3]) : TRUE
    IN  /\ jobs[j].state = "RUNNING"
        /\ jobs[j].cmd = "dtcp"
        /\ CpSources(argv[2]) # {} /\ CpTargets(argv[3]) # {}
        /\ cache' = [cache EXCEPT ![b] = TornFile]
        /\ UNCHANGED << session, source_fileserver_dir, target_project_space_dir, staged,
                        saved, fileserver, project, local, writable, scratch, dirs, now,
                        jobs, call >>

\* a running dtmv ends: the scratch file becomes the file its target names
MvRun(j) ==
    LET dst == Locate(jobs[j].argv[2])
        ok  == scratch # 0
        f   == [c |-> scratch, t |-> now]
    IN  /\ jobs[j].cmd = "dtmv"
        /\ project' = IF ok /\ dst.tier = "project"
                      THEN [project EXCEPT ![dst.rel] = f] ELSE project
        /\ fileserver' = IF ok /\ dst.tier = "fileserver"
                         THEN [fileserver EXCEPT ![dst.rel] = f] ELSE fileserver
        /\ scratch' = 0
        /\ jobs' = [jobs EXCEPT ![j].state = "DONE", ![j].exit = IF ok THEN 0 ELSE 1]
        /\ UNCHANGED << cache, dirs >>

\* a running dtrm -r ends: rm fails when its path does not exist, and else
\* the file the path names is gone
RmRun(j) ==
    LET dst == Locate(jobs[j].argv[2])
        ok  == \/ dst.tier = "project" /\ IsFile(project, dst.rel)
               \/ dst.tier = "fileserver" /\ IsFile(fileserver, dst.rel)
    IN  /\ jobs[j].cmd = "dtrm"
        /\ project' = IF ok /\ dst.tier = "project"
                      THEN [project EXCEPT ![dst.rel] = NoFile] ELSE project
        /\ fileserver' = IF ok /\ dst.tier = "fileserver"
                         THEN [fileserver EXCEPT ![dst.rel] = NoFile] ELSE fileserver
        /\ jobs' = [jobs EXCEPT ![j].state = "DONE", ![j].exit = IF ok THEN 0 ELSE 1]
        /\ UNCHANGED << cache, scratch, dirs >>

\* a running dtls -R1 ends: its output lists the files of the fileserver tree
LsRun(j) ==
    /\ jobs[j].cmd = "dtls"
    /\ jobs' = [jobs EXCEPT ![j].state = "DONE", ![j].exit = 0,
                            ![j].out = Files(fileserver)]
    /\ UNCHANGED << fileserver, project, cache, scratch, dirs >>

\* the exit codes of an rsync that could not write: syntax or usage error,
\* partial transfer due to error
RsyncErrors == { 1, 23 }

\* rsync -a <src>/ <dst>/ of a source that holds directories only: the
\* directories under <src> are made under <dst>; or the job fails, having
\* made none of them or the upper ones only
RsyncDirsRun(j) ==
    LET src   == Components(RsyncSrc(jobs[j].argv))
        dst   == Components(RsyncDst(jobs[j].argv))
        below == { SubSeq(q, Len(src) + 1, Len(q)) : q \in { d \in dirs : Under(d, src) } }
        made  == { dst \o r : r \in below }
    IN  /\ jobs[j].cmd = "dtrsync"
        /\ \/ /\ dirs' = dirs \cup made
              /\ jobs' = [jobs EXCEPT ![j].state = "DONE", ![j].exit = 0]
           \/ \E e \in RsyncErrors, k \in 0..(Max({ Len(r) : r \in below }) - 1) :
                 /\ dirs' = dirs \cup { dst \o r : r \in { b \in below : Len(b) <= k } }
                 /\ jobs' = [jobs EXCEPT ![j].state = "DONE", ![j].exit = e]
        /\ UNCHANGED << fileserver, project, cache, scratch >>

JobRun(j) ==
    /\ jobs[j].state = "RUNNING"
    /\ CASE jobs[j].cmd = "dtrsync" /\ Components(RsyncSrc(jobs[j].argv)) # TemporaryDir
              -> RsyncRun(j)
         [] jobs[j].cmd = "dtrsync" /\ Components(RsyncSrc(jobs[j].argv)) = TemporaryDir
              -> RsyncDirsRun(j)
         [] jobs[j].cmd = "dtcp" -> CpRun(j)
         [] jobs[j].cmd = "dtmv" -> MvRun(j)
         [] jobs[j].cmd = "dtrm" -> RmRun(j)
         [] jobs[j].cmd = "dtls" -> LsRun(j)
    /\ UNCHANGED << session, source_fileserver_dir, target_project_space_dir, staged, saved, local,
                    writable, now, call >>

\* The writes of other users happen between the calls of the instance; by then
\* the caller has taken the outcome of its last call and dropped its processes.
AllIdle == \A t \in Threads : Idle(t)
NoneRunning == \A j \in 1..MaxJobs : jobs[j].state # "RUNNING"

\* someone saves a file on the fileserver
FileserverWrite(n) ==
    /\ AllIdle /\ NoneRunning
    /\ now < MaxTime
    /\ now' = now + 1
    /\ fileserver' = [fileserver EXCEPT ![n] = [c |-> now + 1, t |-> now + 1]]
    /\ jobs' = [j \in 1..MaxJobs |-> NoJob]
    /\ call' = [t \in Threads |-> IdleCall]
    /\ saved' = NoSave
    /\ UNCHANGED << session, source_fileserver_dir, target_project_space_dir, staged, project, cache,
                    local, writable, scratch, dirs >>

\* someone deletes a file of the fileserver
FileserverRemove(n) ==
    /\ AllIdle /\ NoneRunning
    /\ IsFile(fileserver, n)
    /\ fileserver' = [fileserver EXCEPT ![n] = NoFile]
    /\ jobs' = [j \in 1..MaxJobs |-> NoJob]
    /\ call' = [t \in Threads |-> IdleCall]
    /\ saved' = NoSave
    /\ UNCHANGED << session, source_fileserver_dir, target_project_space_dir, staged, project,
                    cache, local, writable, scratch, dirs, now >>

\* someone saves a file in the project space (from a login node)
ProjectWrite(n) ==
    /\ AllIdle /\ NoneRunning
    /\ now < MaxTime
    /\ now' = now + 1
    /\ project' = [project EXCEPT ![n] = [c |-> now + 1, t |-> now + 1]]
    /\ jobs' = [j \in 1..MaxJobs |-> NoJob]
    /\ call' = [t \in Threads |-> IdleCall]
    /\ saved' = NoSave
    /\ UNCHANGED << session, source_fileserver_dir, target_project_space_dir, staged, fileserver, cache,
                    local, writable, scratch, dirs >>

----------------------------------------------------------------------------
(* The synchronisation of the two trees, for every pair of roots *)

InitSync ==
    /\ source_fileserver_dir \in FileserverRoots
    /\ target_project_space_dir \in ProjectRoots
    /\ fileserver = EmptyTree
    /\ project = EmptyTree
    /\ cache = EmptyCache
    /\ local = [n \in LocalNames |-> NoFile]
    /\ writable = {}
    /\ scratch = 0
    /\ dirs = AllParents(target_project_space_dir) \cup { target_project_space_dir }
    /\ now = 0
    /\ jobs = [j \in 1..MaxJobs |-> NoJob]
    /\ call = [t \in { "main" } |-> IdleCall]
    /\ staged = [n \in FileNames |-> NoStage]
    /\ saved = NoSave
    /\ session = NewSession

NextSync ==
    \/ \E t \in Threads, a \in SyncArgs : SyncStart(t, a)
    \/ \E t \in Threads : SyncWaitfor(t)
    \/ \E t \in Threads : SyncCommunicate(t)
    \/ \E j \in 1..MaxJobs : JobRun(j)
    \/ \E n \in TreePaths : FileserverWrite(n)
    \/ \E n \in TreePaths : ProjectWrite(n)

SpecSync == InitSync /\ [][NextSync]_vars

----------------------------------------------------------------------------
(* get_file *)

\* Path.is_file() on a path of the computing node
PathIsFile(path) ==
    IF path.dir = << >> THEN IsFile(local, path.rel)
    ELSE IF path.dir = CacheDir THEN IsFile(cache, path.rel)
    ELSE IF path.dir = target_project_space_dir THEN IsFile(project, path.rel)
    ELSE FALSE

\* a slip: the cache is looked at before the name as given
LocalLookup_CacheFirst(filename) ==
    IF PathIsFile(Join(CacheDir, PathName(filename)))
    THEN Join(CacheDir, PathName(filename))
    ELSE IF PathIsFile(Join(<< >>, filename)) THEN Join(<< >>, filename)
    ELSE IF PathIsFile(Join(target_project_space_dir, filename))
         THEN Join(target_project_space_dir, filename)
    ELSE NoPath

\* the three local checks, in their order: the first path that is a file
LocalLookup(filename) ==
    IF PathIsFile(Join(<< >>, filename)) THEN Join(<< >>, filename)
    ELSE IF PathIsFile(Join(CacheDir, PathName(filename)))
         THEN Join(CacheDir, PathName(filename))
    ELSE IF PathIsFile(Join(target_project_space_dir, filename))
         THEN Join(target_project_space_dir, filename)
    ELSE NoPath

\* a slip: the separators of the name are left as they are
SourceFile_WithoutReplace(filename) == Join(source_fileserver_dir, filename)

\* source_file = source_fileserver_dir / filename.replace("\\", "/")
SourceFile(filename) == Join(source_fileserver_dir, ReplaceBackslash(filename))

\* target_file = temporary_directory_path / source_file.name
TargetFile(filename) == Join(CacheDir, PathName(SourceFile(filename).rel))

\* the call up to its waitfor: the local checks and, when all miss, the dtcp
GetFileStart(t, filename, timeout_in_s) ==
    /\ Idle(t)
    /\ FreeSlots(t) # {}
    /\ LET j == CHOOSE k \in FreeSlots(t) : \A i \in FreeSlots(t) : k <= i
       IN  IF LocalLookup(filename) # NoPath
           THEN /\ jobs' = Reaped(t)
                /\ call' = [call EXCEPT ![t] =
                       [op |-> "get_file", pc |-> "done",
                        args |-> [filename |-> filename, timeout_in_s |-> timeout_in_s],
                        job |-> 0, nlaunch |-> 0, waited |-> 0, pre |-> Snapshot,
                        result |-> [kind |-> "return", exc |-> "",
                                    value |-> LocalLookup(filename)]]]
           ELSE /\ jobs' = Launched(t, j, "dtcp",
                                << << "-r" >>, StrJoin(SourceFile(filename)),
                                   StrJoin(TargetFile(filename)) >>)
                /\ call' = [call EXCEPT ![t] =
                       [op |-> "get_file", pc |-> "waitfor",
                        args |-> [filename |-> filename, timeout_in_s |-> timeout_in_s],
                        job |-> j, nlaunch |-> 1, waited |-> 0, pre |-> Snapshot,
                        result |-> NoResult]]
    /\ saved' = NoSave
    /\ UNCHANGED << session, source_fileserver_dir, target_project_space_dir, staged, fileserver,
                    project, cache, local, writable, scratch, dirs, now >>

\* the caller is blocked in waitfor(process, quiet=False), which is called
\* without a timeout: a unit of time passes and the process has not ended
GetFileWaiting(t) ==
    /\ call[t].op = "get_file"
    /\ call[t].pc = "waitfor"
    /\ jobs[call[t].job].state = "RUNNING"
    /\ call[t].waited < MaxWait
    /\ call' = [call EXCEPT ![t].waited = @ + 1]
    /\ UNCHANGED << session, source_fileserver_dir, target_project_space_dir, staged, saved, fileserver,
                    project, cache, local, writable, scratch, dirs, now, jobs >>

\* a slip: exit code 1 passes for success
GetFileOutcome_ExitAboveOne(filename, exit_code) ==
    IF exit_code > 1
    THEN [kind |-> "raise", exc |-> "IOError", value |-> StrJoin(SourceFile(filename))]
    ELSE [kind |-> "return", exc |-> "", value |-> TargetFile(filename)]

\* what the call ends with, given the exit code waitfor returned
GetFileOutcome(filename, exit_code) ==
    IF exit_code > 0
    THEN [kind |-> "raise", exc |-> "IOError", value |-> StrJoin(SourceFile(filename))]
    ELSE [kind |-> "return", exc |-> "", value |-> TargetFile(filename)]

\* exit_code = waitfor(process), then the raise or the return
GetFileFinish(t) ==
    /\ call[t].op = "get_file"
    /\ call[t].pc = "waitfor"
    /\ jobs[call[t].job].state = "DONE"
    /\ call' = [call EXCEPT ![t].pc = "done",
                            ![t].result = GetFileOutcome(call[t].args.filename,
                                                         jobs[call[t].job].exit)]
    /\ staged' = LET f == call[t].args.filename
                 IN  IF jobs[call[t].job].exit = 0 /\ staged[f] = NoStage
                     THEN [staged EXCEPT ![f] =
                              [path |-> TargetFile(f), c |-> cache[TargetFile(f).rel].c]]
                     ELSE staged
    /\ UNCHANGED << session, source_fileserver_dir, target_project_space_dir, fileserver,
                    project, cache, local, writable, scratch, dirs, now, jobs, saved >>

----------------------------------------------------------------------------
(* The staging of files, for every set of files that are local as given *)

InitGet ==
    /\ source_fileserver_dir \in FileserverRoots
    /\ target_project_space_dir \in ProjectRoots
    /\ fileserver = EmptyTree
    /\ project = EmptyTree
    /\ cache = EmptyCache
    /\ local \in [LocalNames -> { NoFile, GivenFile }]
    /\ writable = {}
    /\ scratch = 0
    /\ dirs = AllParents(target_project_space_dir) \cup { target_project_space_dir }
    /\ now = 0
    /\ jobs = [j \in 1..MaxJobs |-> NoJob]
    /\ call = [t \in { "main" } |-> IdleCall]
    /\ staged = [n \in FileNames |-> NoStage]
    /\ saved = NoSave
    /\ session = NewSession

NextGet ==
    \/ \E t \in Threads, n \in FileNames : GetFileStart(t, n, DefaultTimeout)
    \/ \E t \in Threads : GetFileFinish(t)
    \/ \E j \in 1..MaxJobs : JobRun(j)
    \/ \E n \in TreePaths : FileserverWrite(n)
    \/ \E n \in TreePaths : FileserverRemove(n)
    \/ \E n \in TreePaths : ProjectWrite(n)

SpecGet == InitGet /\ [][NextGet]_vars

----------------------------------------------------------------------------
(* The wait of get_file for its copy job, for every timeout a caller passes *)

NextWait ==
    \/ \E t \in Threads, n \in FileNames, s \in Timeouts : GetFileStart(t, n, s)
    \/ \E t \in Threads : GetFileWaiting(t)
    \/ \E t \in Threads : GetFileFinish(t)
    \/ \E j \in 1..MaxJobs : JobRun(j)
    \/ \E n \in TreePaths : FileserverWrite(n)

SpecWait == InitGet /\ [][NextWait]_vars

----------------------------------------------------------------------------
(* save_file *)

\* str.startswith
StartsWith(s, prefix) == Len(s) >= Len(prefix) /\ SubSeq(s, 1, Len(prefix)) = prefix

\* str(Path(f).parent) of a name with forward slashes
ParentStr(f) ==
    LET seps == { i \in 1..Len(f) : f[i] = "/" }
    IN  IF seps = {} THEN << "." >>
        ELSE IF Max(seps) = 1 THEN << "/" >>
        ELSE SubSeq(f, 1, Max(seps) - 1)

\* str(dir / f): an absolute f stands for itself
PathStr(dir, f) ==
    IF Len(f) > 0 /\ f[1] = "/" THEN f ELSE Str(dir) \o << "/" >> \o f

\* the names a caller passes to save_file: relative ones, and absolute ones
\* under the two roots
SaveNames ==
    { <<"a">>, <<"d", "/", "a">>, <<"d", "\\", "a">> }
    \cup { Str(target_project_space_dir) \o << "/", "a" >>,
           Str(source_fileserver_dir) \o << "/", "a" >> }

\* the values of target a caller passes
Targets == { "project", "fileserver", "home" }

\* what a save function writes
Data == { 8 }

\* the directories the node may find writable: none; the working directory;
\* also its subdirectory d; also the project-space root (on a login node)
WritableSets ==
    { {}, { << "." >> }, { << "." >>, << "d" >> },
      { << "." >>, Str(target_project_space_dir) } }

\* the node has no file of its own, or it has one under every local name
LocalSets == { [n \in LocalNames |-> NoFile], [n \in LocalNames |-> GivenFile] }

\* os.access(full_path.parent, os.W_OK) and str(full_path.parent) != '.'
SaveDirect(f) == ParentStr(f) \in writable /\ ParentStr(f) # << "." >>

\* a slip: the directory part of the name is dropped
SaveTargetPath_NameOnly(f, target) ==
    IF StartsWith(f, Str(target_project_space_dir))
    THEN PathStr(target_project_space_dir, f)
    ELSE IF StartsWith(f, Str(source_fileserver_dir))
    THEN PathStr(source_fileserver_dir, f)
    ELSE IF target # "fileserver" THEN PathStr(target_project_space_dir, PathName(f))
    ELSE PathStr(source_fileserver_dir, PathName(f))

\* target_path: under the root the name starts with, else under the root
\* that target selects
SaveTargetPath(f, target) ==
    IF StartsWith(f, Str(target_project_space_dir))
    THEN PathStr(target_project_space_dir, f)
    ELSE IF StartsWith(f, Str(source_fileserver_dir))
    THEN PathStr(source_fileserver_dir, f)
    ELSE IF target # "fileserver" THEN PathStr(target_project_space_dir, f)
    ELSE PathStr(source_fileserver_dir, f)

\* the private scratch file save_to_project lets the save function write
ScratchFile == << "/", "scratch", "/", "cache", "/", "save" >>

SaveArgs == [filename : SaveNames, target : Targets, data : Data]

\* the file that path string p names is written
WriteAt(p, file) ==
    /\ local' = IF Locate(p).tier = "local" THEN [local EXCEPT ![Locate(p).rel] = file]
                ELSE local
    /\ project' = IF Locate(p).tier = "project"
                  THEN [project EXCEPT ![Locate(p).rel] = file] ELSE project
    /\ fileserver' = IF Locate(p).tier = "fileserver"
                     THEN [fileserver EXCEPT ![Locate(p).rel] = file] ELSE fileserver

\* the save_file call that has returned
Saved(a, direct) ==
    [filename |-> a.filename, target |-> a.target, data |-> a.data, direct |-> direct]

\* the call up to its return (direct save) or up to the wait for the move job
\* of save_to_project; the save function writes its file at a new time
SaveFileStart(t, a) ==
    /\ Idle(t)
    /\ FreeSlots(t) # {}
    /\ now < MaxTime
    /\ now' = now + 1
    /\ LET f == ReplaceBackslash(a.filename)
           j == CHOOSE k \in FreeSlots(t) : \A i \in FreeSlots(t) : k <= i
       IN  IF SaveDirect(f)
           THEN /\ WriteAt(f, [c |-> a.data, t |-> now + 1])
                /\ jobs' = Reaped(t)
                /\ scratch' = scratch
                /\ saved' = Saved(a, TRUE)
                /\ call' = [call EXCEPT ![t] =
                       [op |-> "save_file", pc |-> "done", args |-> a,
                        job |-> 0, nlaunch |-> 0, waited |-> 0, pre |-> Snapshot,
                        result |-> [kind |-> "return", exc |-> "", value |-> a.data]]]
           ELSE /\ scratch' = a.data
                /\ jobs' = Launched(t, j, "dtmv",
                                << ScratchFile, SaveTargetPath(f, a.target) >>)
                /\ saved' = NoSave
                /\ call' = [call EXCEPT ![t] =
                       [op |-> "save_file", pc |-> "waitfor", args |-> a,
                        job |-> j, nlaunch |-> 1, waited |-> 0, pre |-> Snapshot,
                        result |-> NoResult]]
                /\ UNCHANGED << local, project, fileserver >>
    /\ UNCHANGED << session, source_fileserver_dir, target_project_space_dir, staged, cache,
                    writable, dirs >>

\* what save_to_project ends with, given the exit code of its move job
SaveOutcome(a, path, exit_code) ==
    IF exit_code > 0
    THEN [kind |-> "raise", exc |-> "IOError", value |-> path]
    ELSE [kind |-> "return", exc |-> "", value |-> a.data]

\* save_to_project: the move job has ended, the result of the save function
\* is returned
SaveFileFinish(t) ==
    /\ call[t].op = "save_file"
    /\ call[t].pc = "waitfor"
    /\ jobs[call[t].job].state = "DONE"
    /\ call' = [call EXCEPT ![t].pc = "done",
                            ![t].result = SaveOutcome(call[t].args, Argv(t)[2],
                                                      jobs[call[t].job].exit)]
    /\ saved' = IF jobs[call[t].job].exit = 0 THEN Saved(call[t].args, FALSE) ELSE NoSave
    /\ UNCHANGED << session, source_fileserver_dir, target_project_space_dir, fileserver,
                    project, cache, local, writable, scratch, dirs, now, jobs, staged >>

----------------------------------------------------------------------------
(* Saving and reading back, for every set of writable directories *)

InitSave ==
    /\ source_fileserver_dir = << "grp", "g_group", "userdir" >>
    /\ target_project_space_dir = << "projects", "p_proj", "userdir" >>
    /\ fileserver = EmptyTree
    /\ project = EmptyTree
    /\ cache = EmptyCache
    /\ local \in LocalSets
    /\ writable \in WritableSets
    /\ scratch = 0
    /\ dirs = AllParents(target_project_space_dir) \cup { target_project_space_dir }
    /\ now = 0
    /\ jobs = [j \in 1..MaxJobs |-> NoJob]
    /\ call = [t \in { "main" } |-> IdleCall]
    /\ staged = [n \in FileNames |-> NoStage]
    /\ saved = NoSave
    /\ session = NewSession

NextSave ==
    \/ \E t \in Threads, a \in SaveArgs : SaveFileStart(t, a)
    \/ \E t \in Threads : SaveFileFinish(t)
    \/ \E t \in Threads, n \in FileNames : GetFileStart(t, n, DefaultTimeout)
    \/ \E t \in Threads : GetFileFinish(t)
    \/ \E j \in 1..MaxJobs : JobRun(j)
    \/ \E n \in TreePaths : FileserverWrite(n)
    \/ \E n \in TreePaths : ProjectWrite(n)

SpecSave == InitSave /\ [][NextSave]_vars

----------------------------------------------------------------------------
(* remove_file *)

\* the names a caller passes to remove_file: relative ones, the absolute path
\* of a project-space file, a path of a sibling directory whose string begins
\* with the project-space root, the absolute path of a fileserver file
RemoveNames ==
    { <<"a">>, <<"d", "/", "a">> }
    \cup { Str(target_project_space_dir) \o << "/", "a" >>,
           Str(target_project_space_dir) \o << "_old", "/", "a" >>,
           Str(source_fileserver_dir) \o << "/", "a" >> }

\* the path handed to dtrm: the name as it is when its string starts with the
\* project-space root, else target_project_space_dir / filename
RemovePath(filename) ==
    IF ~StartsWith(filename, Str(target_project_space_dir))
    THEN PathStr(target_project_space_dir, filename)
    ELSE filename

\* a slip: the call waits whatever wait_for_finish says
RemoveReturnsProcess_Never(wait_for_finish) == FALSE

\* if not wait_for_finish: return process
RemoveReturnsProcess(wait_for_finish) == ~wait_for_finish

RemoveArgs == [filename : RemoveNames, wait_for_finish : BOOLEAN]

\* the call up to the return of the process, or up to its waitfor
RemoveStart(t, a) ==
    /\ Idle(t)
    /\ FreeSlots(t) # {}
    /\ LET j == CHOOSE k \in FreeSlots(t) : \A i \in FreeSlots(t) : k <= i
       IN  /\ jobs' = Launched(t, j, "dtrm", << << "-r" >>, RemovePath(a.filename) >>)
           /\ call' = [call EXCEPT ![t] =
                  [op |-> "remove_file",
                   pc |-> IF RemoveReturnsProcess(a.wait_for_finish) THEN "done"
                          ELSE "waitfor",
                   args |-> a, job |-> j, nlaunch |-> 1, waited |-> 0, pre |-> Snapshot,
                   result |-> IF RemoveReturnsProcess(a.wait_for_finish)
                              THEN [kind |-> "return", exc |-> "", value |-> [process |-> j]]
                              ELSE NoResult]]
    /\ saved' = NoSave
    /\ UNCHANGED << session, source_fileserver_dir, target_project_space_dir, staged, fileserver,
                    project, cache, local, writable, scratch, dirs, now >>

\* a slip: the exit code is returned whatever it is
RemoveOutcome_ExitCodeReturned(path, exit_code) ==
    [kind |-> "return", exc |-> "", value |-> exit_code]

\* what the call ends with, given the exit code waitfor returned
RemoveOutcome(path, exit_code) ==
    IF exit_code > 0
    THEN [kind |-> "raise", exc |-> "IOError", value |-> path]
    ELSE [kind |-> "return", exc |-> "", value |-> exit_code]

\* exit_code = waitfor(process), then the raise or the return
RemoveFinish(t) ==
    /\ call[t].op = "remove_file"
    /\ call[t].pc = "waitfor"
    /\ jobs[call[t].job].state = "DONE"
    /\ call' = [call EXCEPT ![t].pc = "done",
                            ![t].result = RemoveOutcome(Argv(t)[2], jobs[call[t].job].exit)]
    /\ UNCHANGED << session, source_fileserver_dir, target_project_space_dir, fileserver,
                    project, cache, local, writable, scratch, dirs, now, jobs, staged,
                    saved >>

----------------------------------------------------------------------------
(* __init__: _ensure_project_dir_exists *)

\* Path.exists() of a directory
Exists(p) == p \in dirs

\* i = 0; while parents[i].exists() == False: i += 1
EnsureIndex ==
    LET parents == Parents(target_project_space_dir)
    IN  CHOOSE i \in 0..(Len(parents) - 1) :
            /\ Exists(parents[i + 1])
            /\ \A k \in 0..(i - 1) : ~Exists(parents[k + 1])

\* a slip: one part too few is taken from the end of the path
EnsureParts_OneShort(i) ==
    SubSeq(target_project_space_dir, Len(target_project_space_dir) - i + 1,
           Len(target_project_space_dir))

\* target_project_space_dir.parts[-(i + 1):]
EnsureParts(i) ==
    SubSeq(target_project_space_dir, Len(target_project_space_dir) - i,
           Len(target_project_space_dir))

\* cached_target_dir.mkdir(parents=True, exist_ok=True) in the new temporary
\* directory
EnsureMkdir(i) ==
    { TemporaryDir \o SubSeq(EnsureParts(i), 1, k) : k \in 0..Len(EnsureParts(i)) }

\* str(p) + '/' of a directory
DirArg(p) == (IF Len(p) = 0 THEN << "/" >> ELSE Str(p)) \o << "/" >>

\* the constructor up to its return (the directory exists) or up to the
\* waitfor of its dtrsync
NewStart(t) ==
    /\ call[t].op = "none"
    /\ FreeSlots(t) # {}
    /\ LET j == CHOOSE k \in FreeSlots(t) : \A i \in FreeSlots(t) : k <= i
           i == EnsureIndex
       IN  IF Exists(target_project_space_dir)
           THEN /\ jobs' = Reaped(t)
                /\ dirs' = dirs
                /\ call' = [call EXCEPT ![t] =
                       [op |-> "__init__", pc |-> "done", args |-> << >>,
                        job |-> 0, nlaunch |-> 0, waited |-> 0, pre |-> Snapshot,
                        result |-> [kind |-> "return", exc |-> "", value |-> << >>]]]
           ELSE /\ dirs' = dirs \cup EnsureMkdir(i)
                /\ jobs' = Launched(t, j, "dtrsync",
                                << << "-a" >>, DirArg(TemporaryDir),
                                   DirArg(Parents(target_project_space_dir)[i + 1]) >>)
                /\ call' = [call EXCEPT ![t] =
                       [op |-> "__init__", pc |-> "waitfor", args |-> << >>,
                        job |-> j, nlaunch |-> 1, waited |-> 0, pre |-> Snapshot,
                        result |-> NoResult]]
    /\ saved' = NoSave
    /\ UNCHANGED << session, source_fileserver_dir, target_project_space_dir, staged, fileserver,
                    project, cache, local, writable, scratch, now >>

\* what the constructor ends with, given the exit code waitfor returned
EnsureOutcome(exit_code) ==
    IF exit_code > 0
    THEN [kind |-> "raise", exc |-> "IOError", value |-> Str(target_project_space_dir)]
    ELSE [kind |-> "return", exc |-> "", value |-> << >>]

\* exit_code = waitfor(process); the temporary directory is removed at the
\* end of the with block; then the raise or the return
NewFinish(t) ==
    /\ call[t].op = "__init__"
    /\ call[t].pc = "waitfor"
    /\ jobs[call[t].job].state = "DONE"
    /\ dirs' = { d \in dirs : ~Under(d, TemporaryDir) }
    /\ call' = [call EXCEPT ![t].pc = "done",
                            ![t].result = EnsureOutcome(jobs[call[t].job].exit)]
    /\ UNCHANGED << session, source_fileserver_dir, target_project_space_dir, fileserver,
                    project, cache, local, writable, scratch, now, jobs, staged, saved >>

\* someone removes a directory of the project filesystem that has no
\* directory in it, or makes one in a directory that exists
DirRemove(p) ==
    /\ AllIdle /\ NoneRunning
    /\ p \in dirs /\ p # << >>
    /\ \A q \in dirs : Under(q, p) => q = p
    /\ dirs' = dirs \ { p }
    /\ jobs' = [j \in 1..MaxJobs |-> NoJob]
    /\ call' = [t \in Threads |-> IdleCall]
    /\ saved' = NoSave
    /\ UNCHANGED << session, source_fileserver_dir, target_project_space_dir, staged, fileserver,
                    project, cache, local, writable, scratch, now >>

DirCreate(p) ==
    /\ AllIdle /\ NoneRunning
    /\ p \notin dirs /\ Parent(p) \in dirs
    /\ dirs' = dirs \cup { p }
    /\ jobs' = [j \in 1..MaxJobs |-> NoJob]
    /\ call' = [t \in Threads |-> IdleCall]
    /\ saved' = NoSave
    /\ UNCHANGED << session, source_fileserver_dir, target_project_space_dir, staged, fileserver,
                    project, cache, local, writable, scratch, now >>

----------------------------------------------------------------------------
(* The construction, for every pair of roots and every part of the path to
   the project space that exists before *)

InitNew ==
    /\ source_fileserver_dir \in FileserverRoots
    /\ target_project_space_dir \in ProjectRoots
    /\ fileserver = EmptyTree
    /\ project = EmptyTree
    /\ cache = EmptyCache
    /\ local = [n \in LocalNames |-> NoFile]
    /\ writable = {}
    /\ scratch = 0
    /\ \E k \in 0..Len(target_project_space_dir) :
          dirs = { SubSeq(target_project_space_dir, 1, i) : i \in 0..k }
    /\ now = 0
    /\ jobs = [j \in 1..MaxJobs |-> NoJob]
    /\ call = [t \in { "main" } |-> IdleCall]
    /\ staged = [n \in FileNames |-> NoStage]
    /\ saved = NoSave
    /\ session = NewSession

NextNew ==
    \/ \E t \in Threads : NewStart(t)
    \/ \E t \in Threads : NewFinish(t)
    \/ \E j \in 1..MaxJobs : JobRun(j)
    \/ \E p \in Chain(target_project_space_dir) : DirRemove(p)
    \/ \E p \in Chain(target_project_space_dir) : DirCreate(p)

SpecNew == InitNew /\ [][NextNew]_vars

----------------------------------------------------------------------------
(* list_fileserver_files *)

\* the values of timeout_in_s a caller passes, in units of time
ListTimeouts == { 1, 2 }

\* the call up to its waitfor: the launch of dtls
ListStart(t, timeout_in_s) ==
    /\ Idle(t)
    /\ FreeSlots(t) # {}
    /\ LET j == CHOOSE k \in FreeSlots(t) : \A i \in FreeSlots(t) : k <= i
       IN  /\ jobs' = Launched(t, j, "dtls", << << "-R1" >>, Str(source_fileserver_dir) >>)
           /\ call' = [call EXCEPT ![t] =
                  [op |-> "list_fileserver_files", pc |-> "waitfor",
                   args |-> [timeout_in_s |-> timeout_in_s],
                   job |-> j, nlaunch |-> 1, waited |-> 0, pre |-> Snapshot,
                   timed_out |-> FALSE, result |-> NoResult]]
    /\ saved' = NoSave
    /\ UNCHANGED << session, source_fileserver_dir, target_project_space_dir, staged,
                    fileserver, project, cache, local, writable, scratch, dirs, now >>

\* the caller is in waitfor(process, timeout_in_s=timeout_in_s): a unit of
\* time passes, the process has not ended and the timeout is not reached
ListWaiting(t) ==
    /\ call[t].op = "list_fileserver_files"
    /\ call[t].pc = "waitfor"
    /\ jobs[call[t].job].state = "RUNNING"
    /\ call[t].waited < call[t].args.timeout_in_s
    /\ call[t].waited < MaxWait
    /\ call' = [call EXCEPT ![t].waited = @ + 1]
    /\ UNCHANGED << session, source_fileserver_dir, target_project_space_dir, staged, saved,
                    fileserver, project, cache, local, writable, scratch, dirs, now, jobs >>

\* waitfor returns: the process has ended, or the timeout is reached and the
\* process is left running
ListWaitfor(t) ==
    /\ call[t].op = "list_fileserver_files"
    /\ call[t].pc = "waitfor"
    /\ \/ jobs[call[t].job].state = "DONE"
       \/ call[t].waited >= call[t].args.timeout_in_s
    /\ call' = [call EXCEPT ![t].pc = "communicate",
                            ![t].timed_out = (jobs[call[t].job].state = "RUNNING")]
    /\ UNCHANGED << session, source_fileserver_dir, target_project_space_dir, staged, saved,
                    fileserver, project, cache, local, writable, scratch, dirs, now, jobs >>

\* out, err = process.communicate() waits for the process to end and reads
\* its output; the lines of out are returned
ListCommunicate(t) ==
    /\ call[t].op = "list_fileserver_files"
    /\ call[t].pc = "communicate"
    /\ jobs[call[t].job].state = "DONE"
    /\ jobs' = [jobs EXCEPT ![call[t].job] = Drain(@)]
    /\ call' = [call EXCEPT ![t].pc = "done",
                            ![t].result = [kind |-> "return", exc |-> "",
                                           value |-> jobs[call[t].job].out]]
    /\ UNCHANGED << session, source_fileserver_dir, target_project_space_dir, staged, saved,
                    fileserver, project, cache, local, writable, scratch, dirs, now >>

----------------------------------------------------------------------------
(* The calls that hand over the output of their job, for every value of
   background *)

SyncArgsAll == [direction : Directions, delete : BOOLEAN, overwrite_newer : BOOLEAN,
                im_sure : BOOLEAN, dry_run : BOOLEAN, background : BOOLEAN]

InitOutput ==
    /\ source_fileserver_dir = << "grp", "g_group", "userdir" >>
    /\ target_project_space_dir = << "projects", "p_proj", "userdir" >>
    /\ fileserver = EmptyTree
    /\ project = EmptyTree
    /\ cache = EmptyCache
    /\ local = [n \in LocalNames |-> NoFile]
    /\ writable = {}
    /\ scratch = 0
    /\ dirs = AllParents(target_project_space_dir) \cup { target_project_space_dir }
    /\ now = 0
    /\ jobs = [j \in 1..MaxJobs |-> NoJob]
    /\ call = [t \in { "main" } |-> IdleCall]
    /\ staged = [n \in FileNames |-> NoStage]
    /\ saved = NoSave
    /\ session = NewSession

NextOutput ==
    \/ \E t \in Threads, a \in SyncArgsAll : SyncStart(t, a)
    \/ \E t \in Threads : SyncWaitfor(t)
    \/ \E t \in Threads : SyncCommunicate(t)
    \/ \E t \in Threads, s \in ListTimeouts : ListStart(t, s)
    \/ \E t \in Threads : ListWaiting(t)
    \/ \E t \in Threads : ListWaitfor(t)
    \/ \E t \in Threads : ListCommunicate(t)
    \/ \E j \in 1..MaxJobs : JobRun(j)
    \/ FileserverWrite(<< "a" >>)

SpecOutput == InitOutput /\ [][NextOutput]_vars

----------------------------------------------------------------------------
(* __del__ *)

\* whether temporary_directory.cleanup() raises FileNotFoundError: it acts
\* only while its finalizer is alive; when the directory is gone by then,
\* Python up to 3.7 lets the error of rmtree out and later versions do not
CleanupRaises ==
    IF session.finalizer /\ ~session.subdir THEN BOOLEAN ELSE { FALSE }

\* self.cache.cleanup() is reached when the statement before it in the try
\* block has not raised
ReleaseReached(raised) == ~raised

\* the whole of __del__: the two cleanups in one try block, FileNotFoundError
\* is passed over
Del(t) ==
    /\ Idle(t)
    /\ \E raised \in CleanupRaises :
          session' = [finalizer |-> FALSE, subdir |-> FALSE,
                      workspace |-> IF ReleaseReached(raised) THEN FALSE
                                    ELSE session.workspace]
    /\ cache' = EmptyCache
    /\ jobs' = Reaped(t)
    /\ call' = [call EXCEPT ![t] =
           [op |-> "__del__", pc |-> "done", args |-> << >>,
            job |-> 0, nlaunch |-> 0, waited |-> 0, pre |-> Snapshot,
            result |-> [kind |-> "return", exc |-> "", value |-> << >>]]]
    /\ saved' = NoSave
    /\ UNCHANGED << source_fileserver_dir, target_project_space_dir, staged, fileserver,
                    project, local, writable, scratch, dirs, now >>

\* the temporary directory is removed from outside the instance
SubdirRemoved ==
    /\ AllIdle /\ NoneRunning
    /\ session.subdir
    /\ session' = [session EXCEPT !.subdir = FALSE]
    /\ cache' = EmptyCache
    /\ jobs' = [j \in 1..MaxJobs |-> NoJob]
    /\ call' = [t \in Threads |-> IdleCall]
    /\ saved' = NoSave
    /\ UNCHANGED << source_fileserver_dir, target_project_space_dir, staged, fileserver,
                    project, local, writable, scratch, dirs, now >>

----------------------------------------------------------------------------
(* The life of an instance up to its teardowns *)

InitDel ==
    /\ source_fileserver_dir = << "grp", "g_group", "userdir" >>
    /\ target_project_space_dir = << "projects", "p_proj", "userdir" >>
    /\ fileserver = EmptyTree
    /\ project = EmptyTree
    /\ cache = EmptyCache
    /\ local = [n \in LocalNames |-> NoFile]
    /\ writable = {}
    /\ scratch = 0
    /\ dirs = AllParents(target_project_space_dir) \cup { target_project_space_dir }
    /\ now = 0
    /\ jobs = [j \in 1..MaxJobs |-> NoJob]
    /\ call = [t \in { "main" } |-> IdleCall]
    /\ staged = [n \in FileNames |-> NoStage]
    /\ saved = NoSave
    /\ session = NewSession

\* get_file is called while the instance and its temporary directory are there
NextDel ==
    \/ \E t \in Threads, n \in FileNames :
          session.finalizer /\ session.subdir /\ GetFileStart(t, n, DefaultTimeout)
    \/ \E t \in Threads : GetFileFinish(t)
    \/ \E j \in 1..MaxJobs : JobRun(j)
    \/ \E n \in TreePaths : FileserverWrite(n)
    \/ SubdirRemoved
    \/ \E t \in Threads : Del(t)

SpecDel == InitDel /\ [][NextDel]_vars

----------------------------------------------------------------------------
(* get_file from two threads of one instance *)

\* the names the two callers pass
RaceNames == { <<"a">>, <<"d", "/", "a">> }

InitRace ==
    /\ source_fileserver_dir = << "grp", "g_group", "userdir" >>
    /\ target_project_space_dir = << "projects", "p_proj", "userdir" >>
    /\ fileserver = EmptyTree
    /\ project = EmptyTree
    /\ cache = EmptyCache
    /\ local = [n \in LocalNames |-> NoFile]
    /\ writable = {}
    /\ scratch = 0
    /\ dirs = AllParents(target_project_space_dir) \cup { target_project_space_dir }
    /\ now = 0
    /\ jobs = [j \in 1..MaxJobs |-> NoJob]
    /\ call = [t \in { "t1", "t2" } |-> IdleCall]
    /\ staged = [n \in FileNames |-> NoStage]
    /\ saved = NoSave
    /\ session = NewSession

NextRace ==
    \/ \E t \in Threads, n \in RaceNames : GetFileStart(t, n, DefaultTimeout)
    \/ \E t \in Threads : GetFileFinish(t)
    \/ \E j \in 1..MaxJobs : CpOpen(j)
    \/ \E j \in 1..MaxJobs : JobRun(j)
    \/ \E n \in TreePaths : FileserverWrite(n)

SpecRace == InitRace /\ [][NextRace]_vars

----------------------------------------------------------------------------
(* The removal of files *)

InitRemove ==
    /\ source_fileserver_dir = << "grp", "g_group", "userdir" >>
    /\ target_project_space_dir = << "projects", "p_proj", "userdir" >>
    /\ fileserver = EmptyTree
    /\ project = EmptyTree
    /\ cache = EmptyCache
    /\ local = [n \in LocalNames |-> NoFile]
    /\ writable = {}
    /\ scratch = 0
    /\ dirs = AllParents(target_project_space_dir) \cup { target_project_space_dir }
    /\ now = 0
    /\ jobs = [j \in 1..MaxJobs |-> NoJob]
    /\ call = [t \in { "main" } |-> IdleCall]
    /\ staged = [n \in FileNames |-> NoStage]
    /\ saved = NoSave
    /\ session = NewSession

\* other users write the one file that the names of RemoveNames reach in each
\* tree; d/a stays a file that is not there
NextRemove ==
    \/ \E t \in Threads, a \in RemoveArgs : RemoveStart(t, a)
    \/ \E t \in Threads : RemoveFinish(t)
    \/ \E j \in 1..MaxJobs : JobRun(j)
    \/ FileserverWrite(<< "a" >>)
    \/ ProjectWrite(<< "a" >>)

SpecRemove == InitRemove /\ [][NextRemove]_vars

----------------------------------------------------------------------------
(* What the claims speak of *)

SyncCall(t) == call[t].op = "sync_with_fileserver"
SyncDone(t) == SyncCall(t) /\ call[t].pc = "done"

Raised(t, exc) == call[t].result.kind = "raise" /\ call[t].result.exc = exc
Returned(t) == call[t].result.kind = "return"

Count(seq, x) == Cardinality({ i \in 1..Len(seq) : seq[i] = x })

FromFileserver(t) == call[t].args.direction \in { "from_fileserver", "from fileserver" }

\* the source and destination trees of the call of t: before it, and now
PreSrc(t) == IF FromFileserver(t) THEN call[t].pre.fileserver ELSE call[t].pre.project
PreDst(t) == IF FromFileserver(t) THEN call[t].pre.project ELSE call[t].pre.fileserver
CurSrc(t) == IF FromFileserver(t) THEN fileserver ELSE project
CurDst(t) == IF FromFileserver(t) THEN project ELSE fileserver
SrcRoot(t) == IF FromFileserver(t) THEN source_fileserver_dir ELSE target_project_space_dir
DstRoot(t) == IF FromFileserver(t) THEN target_project_space_dir ELSE source_fileserver_dir

TreesUnchanged(t) ==
    fileserver = call[t].pre.fileserver /\ project = call[t].pre.project

InBoth(t) == Files(PreSrc(t)) \cap Files(PreDst(t))

\* a top-level root: its parent is the filesystem root or the directory right
\* below the filesystem root
TopLevel(p) == Len(Parent(p)) <= 1

BothTopLevel == TopLevel(source_fileserver_dir) /\ TopLevel(target_project_space_dir)

NoFlags(a) == ~a.delete /\ ~a.overwrite_newer /\ ~a.im_sure /\ ~a.dry_run

----------------------------------------------------------------------------
(* C1..C7: sync_with_fileserver *)

\* C1: a call with dry_run=False and im_sure=False whose request is dangerous
\* (delete, or overwrite_newer, or both roots top-level) launches exactly one
\* command, that command has the dry-run flag, its output is collected once
\* after the wait, and the call raises ConfirmationRequiredException carrying
\* that output; no command without the dry-run flag is launched.
C1_DangerousUnconfirmedIsForcedDryRun ==
    \A t \in Threads :
        (/\ SyncCall(t)
         /\ ~call[t].args.dry_run /\ ~call[t].args.im_sure
         /\ (call[t].args.delete \/ call[t].args.overwrite_newer \/ BothTopLevel))
        => /\ call[t].nlaunch = 1
           /\ RsyncDryRun(Argv(t))
           /\ call[t].pc = "done" =>
                /\ jobs[call[t].job].drained = 1
                /\ Raised(t, "ConfirmationRequiredException")
                /\ call[t].result.value = jobs[call[t].job].out

\* C2: after a sync call that raised ConfirmationRequiredException, in either
\* direction, the fileserver tree and the project-space tree hold exactly the
\* files, with the contents and times, they held before the call.
C2_UnconfirmedLeavesTreesUnmodified ==
    \A t \in Threads :
        (SyncDone(t) /\ Raised(t, "ConfirmationRequiredException"))
        => TreesUnchanged(t)

\* C2 witness: a call raised ConfirmationRequiredException though its dry run
\* listed files, in the direction to the fileserver, with the delete flag.
C2_Witness ==
    \E t \in Threads :
        /\ SyncDone(t) /\ Raised(t, "ConfirmationRequiredException")
        /\ call[t].args.delete /\ ~FromFileserver(t)
        /\ call[t].result.value # {}
        /\ Files(PreDst(t)) \ Files(PreSrc(t)) # {}

\* C3: a call with im_sure=True and dry_run=False launches exactly one
\* command, without the dry-run flag, with --delete iff delete and without -u
\* iff overwrite_newer; with delete every file that was only in the destination
\* is gone, and with overwrite_newer a destination file newer than its source
\* has the source's content.
C3_ConfirmedRunsForReal ==
    \A t \in Threads :
        (SyncDone(t) /\ call[t].args.im_sure /\ ~call[t].args.dry_run)
        => /\ call[t].nlaunch = 1
           /\ ~RsyncDryRun(Argv(t))
           /\ RsyncDelete(Argv(t)) <=> call[t].args.delete
           /\ ~RsyncUpdate(Argv(t)) <=> call[t].args.overwrite_newer
           /\ call[t].args.delete =>
                \A n \in Files(PreDst(t)) \ Files(PreSrc(t)) : ~IsFile(CurDst(t), n)
           /\ call[t].args.overwrite_newer =>
                \A n \in InBoth(t) :
                    PreDst(t)[n].t > PreSrc(t)[n].t => CurDst(t)[n].c = PreSrc(t)[n].c

\* C4: for every combination of delete, overwrite_newer, im_sure and roots, a
\* call with dry_run=True does not raise ConfirmationRequiredException,
\* launches exactly one command, which has the dry-run flag exactly once, and
\* leaves both trees unchanged.
C4_DryRunIsNeverDangerous ==
    \A t \in Threads :
        (SyncDone(t) /\ call[t].args.dry_run)
        => /\ ~Raised(t, "ConfirmationRequiredException")
           /\ call[t].nlaunch = 1
           /\ Count(Argv(t)[1], "n") = 1
           /\ TreesUnchanged(t)

\* C5: with no flag set, a call whose two roots are both top-level raises
\* ConfirmationRequiredException after a forced dry run, and a call with at
\* least one deeper root is safe and runs for real.
C5_WholeTreeSyncIsDangerous ==
    \A t \in Threads :
        (SyncDone(t) /\ NoFlags(call[t].args))
        => IF BothTopLevel
           THEN /\ Raised(t, "ConfirmationRequiredException")
                /\ call[t].nlaunch = 1 /\ RsyncDryRun(Argv(t))
           ELSE /\ Returned(t)
                /\ call[t].nlaunch = 1 /\ ~RsyncDryRun(Argv(t))

\* C6 as stated: after every call with no flag set, a file of both trees whose
\* destination copy was strictly newer is unchanged, and one whose destination
\* copy was older has the source's content.
C6_Original ==
    \A t \in Threads :
        (SyncDone(t) /\ NoFlags(call[t].args))
        => \A n \in InBoth(t) :
              /\ PreDst(t)[n].t > PreSrc(t)[n].t => CurDst(t)[n] = PreDst(t)[n]
              /\ PreDst(t)[n].t < PreSrc(t)[n].t => CurDst(t)[n].c = PreSrc(t)[n].c

\* C6 amended: a call with no flag set that is classified safe (the whole-tree
\* test is false) returns, and then a file of both trees whose destination
\* copy was strictly newer is unchanged and one whose destination copy was
\* older has the source's content; when both roots have two components the
\* call raises ConfirmationRequiredException, when the whole-tree test indexes
\* past the parents of a one-component root it raises IndexError, and in both
\* cases no file changes.
C6_SafeSyncSkipsNewerOverwritesOlder ==
    \A t \in Threads :
        (SyncDone(t) /\ NoFlags(call[t].args))
        => IF WholeTree = "False"
           THEN /\ Returned(t)
                /\ \A n \in InBoth(t) :
                      /\ PreDst(t)[n].t > PreSrc(t)[n].t => CurDst(t)[n] = PreDst(t)[n]
                      /\ PreDst(t)[n].t < PreSrc(t)[n].t
                            => CurDst(t)[n].c = PreSrc(t)[n].c
           ELSE /\ Raised(t, IF WholeTree = "True" THEN "ConfirmationRequiredException"
                             ELSE "IndexError")
                /\ TreesUnchanged(t)

\* C6 witness: a safe call with no flag set returned, in one direction with a
\* destination copy that was newer and is kept, or was older and is replaced.
C6_Witness ==
    \E t \in Threads :
        /\ SyncDone(t) /\ NoFlags(call[t].args) /\ Returned(t)
        /\ \E n \in InBoth(t) :
              /\ PreDst(t)[n].t < PreSrc(t)[n].t
              /\ CurDst(t)[n].c = PreSrc(t)[n].c
              /\ CurDst(t)[n] # PreDst(t)[n]

\* C7 as stated: a call with default flags leaves every file of the source
\* tree in the destination tree (with equal content when the direction is from
\* the fileserver), keeps every file the destination had, and its command
\* names the source root with a trailing separator and the destination root
\* without one.
C7_Original ==
    \A t \in Threads :
        (SyncDone(t) /\ NoFlags(call[t].args))
        => /\ \A n \in Files(PreSrc(t)) :
                /\ IsFile(CurDst(t), n)
                /\ FromFileserver(t) => CurDst(t)[n].c = PreSrc(t)[n].c
           /\ Files(PreDst(t)) \subseteq Files(CurDst(t))
           /\ call[t].nlaunch = 1
           /\ RsyncSrc(Argv(t)) = Str(SrcRoot(t)) \o << "/" >>
           /\ RsyncDst(Argv(t)) = Str(DstRoot(t))

\* C7 amended: a call with default flags that is classified safe (the
\* whole-tree test is false) launches one command that names the source root
\* with a trailing separator and the destination root without one; afterwards
\* every file of the source tree exists in the destination tree, with the
\* source's content when the destination had no copy or an older one, while a
\* strictly newer destination copy is kept, and every file the destination had
\* still exists.  When both roots
\* have two components the call only dry-runs and raises
\* ConfirmationRequiredException, when a root the test looks at has one
\* component the call raises IndexError without a command; nothing is copied
\* in either case.
C7_SafeDefaultSyncCopiesContents ==
    \A t \in Threads :
        (SyncDone(t) /\ NoFlags(call[t].args))
        => IF WholeTree = "False"
           THEN /\ Returned(t)
                /\ call[t].nlaunch = 1
                /\ RsyncSrc(Argv(t)) = Str(SrcRoot(t)) \o << "/" >>
                /\ RsyncDst(Argv(t)) = Str(DstRoot(t))
                /\ \A n \in Files(PreSrc(t)) :
                      /\ IsFile(CurDst(t), n)
                      /\ ~IsFile(PreDst(t), n) => CurDst(t)[n].c = PreSrc(t)[n].c
                      /\ (IsFile(PreDst(t), n) /\ PreDst(t)[n].t < PreSrc(t)[n].t)
                            => CurDst(t)[n].c = PreSrc(t)[n].c
                      /\ (IsFile(PreDst(t), n) /\ PreDst(t)[n].t > PreSrc(t)[n].t)
                            => CurDst(t)[n] = PreDst(t)[n]
                /\ Files(PreDst(t)) \subseteq Files(CurDst(t))
                /\ CurSrc(t) = PreSrc(t)
           ELSE /\ TreesUnchanged(t)
                /\ IF WholeTree = "True"
                   THEN /\ Raised(t, "ConfirmationRequiredException")
                        /\ call[t].nlaunch = 1 /\ RsyncDryRun(Argv(t))
                   ELSE /\ Raised(t, "IndexError")
                        /\ call[t].nlaunch = 0

\* C7 witness: a safe call with default flags returned after it brought a file
\* that only the source had into the destination, which kept a file of its own.
C7_Witness ==
    \E t \in Threads :
        /\ SyncDone(t) /\ NoFlags(call[t].args) /\ Returned(t)
        /\ \E n \in Files(PreSrc(t)) \ Files(PreDst(t)) : IsFile(CurDst(t), n)
        /\ Files(PreDst(t)) \ Files(PreSrc(t)) # {}

----------------------------------------------------------------------------
(* C8..C10: get_file *)

GetCall(t) == call[t].op = "get_file"
GetDone(t) == GetCall(t) /\ call[t].pc = "done"

\* the base name of a name once its separators are forward slashes
BaseName(filename) == PathName(ReplaceBackslash(filename))

\* the processes that exist
LiveJobs == { j \in 1..MaxJobs : jobs[j] # NoJob }

\* C8: for every name that is a regular file exactly as given, get_file
\* returns that path unchanged and launches no job, whatever the cache, the
\* project space and the fileserver hold.
C8_LocalFileIsReturnedAsGiven ==
    \A t \in Threads :
        (GetCall(t) /\ IsFile(local, call[t].args.filename))
        => /\ call[t].pc = "done"
           /\ Returned(t)
           /\ call[t].result.value = Join(<< >>, call[t].args.filename)
           /\ call[t].nlaunch = 0
           /\ LiveJobs = {}

\* C8 witness: get_file returned a name that is a file as given while the
\* cache held a file of its base name and the project space a file of its name.
C8_Witness ==
    \E t \in Threads :
        /\ GetDone(t) /\ IsFile(local, call[t].args.filename)
        /\ IsFile(cache, PathName(call[t].args.filename))
        /\ IsFile(project, call[t].args.filename)
        /\ Files(fileserver) # {}

\* C9: for every name that get_file staged once, a later get_file of the name,
\* after any change of the fileserver copy, returns the cache path the first
\* call returned, launches no copy job, and the file there still has the
\* content the fileserver file had at the first call.
C9_StagedNameIsServedFromCache ==
    \A t \in Threads :
        (GetDone(t) /\ call[t].pre.staged[call[t].args.filename] # NoStage)
        => /\ Returned(t)
           /\ call[t].result.value = call[t].pre.staged[call[t].args.filename].path
           /\ call[t].nlaunch = 0
           /\ cache[call[t].result.value.rel].c
                 = call[t].pre.staged[call[t].args.filename].c

\* C10: for every name that is no file as given, has no cache entry of its
\* base name, is no file of the project space and none of the fileserver,
\* get_file launches exactly one copy job, the job exits non-zero, no second
\* job is launched, the call raises an IOError naming the fileserver source
\* path, and the cache has no entry for the name afterwards.
C10_MissingEverywhereRaisesAfterOneCopy ==
    \A t \in Threads :
        (/\ GetDone(t)
         /\ ~IsFile(local, call[t].args.filename)
         /\ ~IsFile(call[t].pre.cache, BaseName(call[t].args.filename))
         /\ ~IsFile(call[t].pre.project, call[t].args.filename)
         /\ ~IsFile(call[t].pre.fileserver, ReplaceBackslash(call[t].args.filename)))
        => /\ call[t].nlaunch = 1
           /\ LiveJobs = { call[t].job }
           /\ jobs[call[t].job].cmd = "dtcp"
           /\ jobs[call[t].job].state = "DONE"
           /\ jobs[call[t].job].exit > 0
           /\ Raised(t, "IOError")
           /\ call[t].result.value
                 = Str(source_fileserver_dir) \o << "/" >>
                      \o ReplaceBackslash(call[t].args.filename)
           /\ ~IsFile(cache, BaseName(call[t].args.filename))
           /\ ~IsFile(cache, PathName(call[t].args.filename))

\* C10 witness: a get_file of a name with a directory part, missing in every
\* tier, ended in an IOError while the fileserver held another file.
C10_Witness ==
    \E t \in Threads :
        /\ GetDone(t) /\ Raised(t, "IOError")
        /\ Len(call[t].args.filename) > 1
        /\ Files(fileserver) # {}
        /\ ~IsFile(fileserver, ReplaceBackslash(call[t].args.filename))

----------------------------------------------------------------------------
(* C11..C13: get_file, its order, its copy and its wait *)

\* C11: get_file looks at (1) the name as given, (2) <cache>/<base name>,
\* (3) <project space>/<name>, in this order, and returns the first that is a
\* regular file without launching a job; it launches a copy job only when all
\* three miss.
C11_FirstLocalMatchWins ==
    \A t \in Threads :
        GetCall(t) =>
            LET f == call[t].args.filename
                hit(path) == /\ call[t].pc = "done" /\ Returned(t)
                             /\ call[t].result.value = path
                             /\ call[t].nlaunch = 0
            IN  IF IsFile(local, f) THEN hit(Join(<< >>, f))
                ELSE IF IsFile(call[t].pre.cache, BaseName(f))
                     THEN hit(Join(CacheDir, BaseName(f)))
                ELSE IF IsFile(call[t].pre.project, f)
                     THEN hit(Join(target_project_space_dir, f))
                ELSE call[t].nlaunch = 1 /\ jobs[call[t].job].cmd = "dtcp"

\* C12: for every name that misses the three local checks and is a file of
\* the fileserver, get_file launches exactly one dtcp -r job from
\* <fileserver root>/<name> to <cache>/<base name>, returns only when that job
\* is done, and returns <cache>/<base name>, which then has the content the
\* fileserver file had when it was copied.
C12_MissEverywhereLocalCopiesOnce ==
    \A t \in Threads :
        LET f == call[t].args.filename
            n == ReplaceBackslash(f)
        IN  (/\ GetCall(t)
             /\ ~IsFile(local, f)
             /\ ~IsFile(call[t].pre.cache, PathName(f))
             /\ ~IsFile(call[t].pre.project, f)
             /\ IsFile(call[t].pre.fileserver, n))
            => /\ call[t].nlaunch = 1
               /\ LiveJobs = { call[t].job }
               /\ Argv(t) = << << "-r" >>,
                               Str(source_fileserver_dir) \o << "/" >> \o n,
                               Str(CacheDir) \o << "/" >> \o BaseName(f) >>
               /\ jobs[call[t].job].cmd = "dtcp"
               /\ call[t].pc = "done" =>
                    /\ jobs[call[t].job].state = "DONE"
                    /\ jobs[call[t].job].exit = 0
                    /\ Returned(t)
                    /\ call[t].result.value = Join(CacheDir, BaseName(f))
                    /\ IsFile(cache, BaseName(f))
                    /\ cache[BaseName(f)].c = call[t].pre.fileserver[n].c

\* C12 witness: a get_file of a name with a backslash separator returned the
\* cache path of the copy it made, while the fileserver held another file too.
C12_Witness ==
    \E t \in Threads :
        /\ GetDone(t) /\ Returned(t) /\ call[t].nlaunch = 1
        /\ call[t].args.filename = << "d", "\\", "a" >>
        /\ call[t].result.value = Join(CacheDir, << "a" >>)
        /\ IsFile(fileserver, << "a" >>)
        /\ cache[<< "a" >>].c = fileserver[<< "d", "/", "a" >>].c
        /\ cache[<< "a" >>].c # fileserver[<< "a" >>].c

\* C13: get_file waits for its copy job without a timeout when the caller gave
\* none or a non-positive one, and with a positive timeout_in_s it stops
\* waiting once that time has passed: the caller is never blocked for longer.
C13_PositiveTimeoutEndsTheWait ==
    \A t \in Threads :
        GetCall(t) =>
            /\ (call[t].args.timeout_in_s <= 0 /\ call[t].pc = "done"
                    /\ call[t].nlaunch = 1)
                  => jobs[call[t].job].state = "DONE"
            /\ (call[t].args.timeout_in_s > 0 /\ call[t].pc = "waitfor")
                  => call[t].waited <= call[t].args.timeout_in_s

----------------------------------------------------------------------------
(* C14..C16: save_file *)

SaveCall(t) == call[t].op = "save_file"
SaveDone(t) == SaveCall(t) /\ call[t].pc = "done"

\* a name written with forward slashes only
NoBackslash(x) == "\\" \notin Range(x)

Relative(x) == Len(x) > 0 /\ x[1] # "/"

\* where the documentation puts a saved file: an absolute name stands for
\* itself, a relative one is under the fileserver root for target='fileserver'
\* and under the project-space root for every other target
Destination(a) ==
    LET f == ReplaceBackslash(a.filename)
    IN  IF ~Relative(f) THEN f
        ELSE IF a.target = "fileserver" THEN Str(source_fileserver_dir) \o << "/" >> \o f
        ELSE Str(target_project_space_dir) \o << "/" >> \o f

\* the file a path string names
FileAt(p) ==
    CASE Locate(p).tier = "project" -> project[Locate(p).rel]
      [] Locate(p).tier = "fileserver" -> fileserver[Locate(p).rel]
      [] Locate(p).tier = "local" -> local[Locate(p).rel]
      [] OTHER -> NoFile

\* the content of the file at a path get_file returned
Content(path) ==
    IF path.dir = << >> THEN local[path.rel].c
    ELSE IF path.dir = CacheDir THEN cache[path.rel].c
    ELSE project[path.rel].c

\* the get_file call of t asks for the name the last save_file call saved
ReadsBack(t) ==
    /\ GetDone(t)
    /\ call[t].pre.saved # NoSave
    /\ call[t].pre.saved.filename = call[t].args.filename

NotShadowed(t) ==
    LET x == call[t].args.filename
    IN  \/ call[t].pre.saved.direct
        \/ /\ ~IsFile(call[t].pre.local, x)
           /\ ~IsFile(call[t].pre.cache, PathName(x))
           /\ call[t].pre.saved.target = "fileserver" => ~IsFile(call[t].pre.project, x)

C15_DirectExactlyWhenDestinationWritable ==
    \A t \in Threads :
        SaveCall(t) =>
            LET a == call[t].args
            IN  IF ParentStr(Destination(a)) \in writable
                THEN /\ call[t].pc = "done" /\ call[t].nlaunch = 0 /\ Returned(t)
                     /\ FileAt(Destination(a)).c = a.data
                ELSE /\ call[t].nlaunch = 1
                     /\ jobs[call[t].job].cmd = "dtmv"
                     /\ Argv(t)[2] = Destination(a)
                     /\ call[t].pc = "done" =>
                          /\ jobs[call[t].job].state = "DONE"
                          /\ Returned(t) /\ call[t].result.value = a.data

\* C16: after save_file, a relative filename is a file under the fileserver
\* root for target='fileserver' and under the project-space root for every
\* other target, an absolute filename under the project-space root is a file
\* at that path, the file has the content the save function wrote, and the
\* other tier is as it was.
C16_SavedAtTheDestination ==
    \A t \in Threads :
        LET a == call[t].args
            f == ReplaceBackslash(a.filename)
        IN  (/\ SaveDone(t)
             /\ Relative(f) \/ StartsWith(f, Str(target_project_space_dir) \o << "/" >>))
            => /\ Returned(t)
               /\ FileAt(Destination(a)).c = a.data
               /\ Locate(Destination(a)).tier = "project"
                     => fileserver = call[t].pre.fileserver
               /\ Locate(Destination(a)).tier = "fileserver"
                     => project = call[t].pre.project

----------------------------------------------------------------------------
(* C17..C19: remove_file *)

RemoveCall(t) == call[t].op = "remove_file"
RemoveDone(t) == RemoveCall(t) /\ call[t].pc = "done"

\* a path string that lies inside the tree of a root
Inside(p, root) == StartsWith(p, Str(root) \o << "/" >>)

\* the job of the call of t is the only process since the call began: no
\* job of an earlier unwaited call was still running
Alone(t) == LiveJobs = { call[t].job }

\* C17: for every filename (bare, relative, absolute, or one whose string
\* merely begins with the project-space root) the path handed to the remove
\* command lies inside the project-space tree; a relative name n is mapped to
\* <project space root>/n and a path under the root is used as it is.
C17_RemovesInsideProjectSpaceOnly ==
    \A t \in Threads :
        RemoveCall(t) =>
            LET n == call[t].args.filename
            IN  /\ call[t].nlaunch = 1
                /\ Inside(Argv(t)[2], target_project_space_dir)
                /\ Relative(n) => Argv(t)[2] = Str(target_project_space_dir) \o << "/" >> \o n
                /\ Inside(n, target_project_space_dir) => Argv(t)[2] = n

----------------------------------------------------------------------------
(* C21: the background flag of sync_with_fileserver *)

\* the call is not one that is forced into a dry run
NotForced(a) == a.im_sure \/ ~ConfirmationRequired(a.delete, a.overwrite_newer, a.dry_run)

\* C21: with background=True sync_with_fileserver returns the process of the
\* job it launched without waiting for it; with background=False it waits
\* for the job and returns what communicate() hands over.
C21_BackgroundReturnsTheProcess ==
    \A t \in Threads :
        (SyncCall(t) /\ call[t].nlaunch = 1 /\ NotForced(call[t].args))
        => IF call[t].args.background
           THEN /\ call[t].pc = "done"
                /\ Returned(t)
                /\ call[t].result.value = [process |-> call[t].job]
           ELSE call[t].pc = "done"
                   => /\ Returned(t)
                      /\ jobs[call[t].job].state = "DONE"
                      /\ call[t].result.value = jobs[call[t].job].out

----------------------------------------------------------------------------
(* C20: the constructor *)

NewCall(t) == call[t].op = "__init__"
NewDone(t) == NewCall(t) /\ call[t].pc = "done"

\* C20: after a construction without error the target project-space directory
\* exists; when it existed before, the constructor launches no job and leaves
\* the directories as they were; when it did not, exactly one dtrsync job is
\* launched, a construction whose job ends with an exit code above 0 raises
\* an IOError, and one whose job ends with 0 has added the missing
\* directories from the nearest existing ancestor down to the target, and
\* nothing else.
C20_ConstructedMeansProjectDirExists ==
    \A t \in Threads :
        NewCall(t) =>
            LET target == target_project_space_dir
                before == call[t].pre.dirs
            IN  /\ call[t].nlaunch = Cardinality(LiveJobs)
                /\ call[t].nlaunch = IF target \in before THEN 0 ELSE 1
                /\ call[t].nlaunch = 1 =>
                      /\ jobs[call[t].job].cmd = "dtrsync"
                      /\ call[t].pc = "done" => jobs[call[t].job].state = "DONE"
                /\ call[t].pc = "done" =>
                      /\ Returned(t) => target \in dirs
                      /\ target \in before => Returned(t) /\ dirs = before
                      /\ target \notin before =>
                            IF jobs[call[t].job].exit > 0
                            THEN Raised(t, "IOError")
                            ELSE Returned(t) /\ dirs = before \cup Chain(target)

\* C20 witness: a construction has returned, the target and its parent did
\* not exist before and both exist now.
C20_Witness ==
    \E t \in Threads :
        /\ NewDone(t) /\ Returned(t)
        /\ target_project_space_dir \notin call[t].pre.dirs
        /\ Parent(target_project_space_dir) \notin call[t].pre.dirs
        /\ target_project_space_dir \in dirs

----------------------------------------------------------------------------
(* C22, C23: the names of the cache *)

\* the name has a backslash separator
Foreign(filename) == "\\" \in Range(filename)

\* C22: a name with backslash separators is looked up in its forward-slash
\* form: for every such name d\f that get_file staged once, a second
\* get_file of the name finds <cache>/f in the cache check and returns it
\* without launching another copy job.
C22_ForeignNameIsLookedUpNormalized ==
    \A t \in Threads :
        (GetCall(t) /\ Foreign(call[t].args.filename)
           /\ call[t].pre.staged[call[t].args.filename] # NoStage)
        => /\ call[t].pc = "done"
           /\ call[t].nlaunch = 0
           /\ Returned(t)
           /\ call[t].result.value = Join(CacheDir, BaseName(call[t].args.filename))

\* C23: the cache is keyed by base name: after get_file has staged a name
\* whose base name is b, every later get_file of a name with base name b that
\* is no file as given returns <cache>/b and launches no copy job.
C23_CacheIsKeyedByBaseName ==
    \A t \in Threads :
        (GetCall(t) /\ ~IsFile(call[t].pre.local, call[t].args.filename)
           /\ \E n \in FileNames :
                 /\ call[t].pre.staged[n] # NoStage
                 /\ BaseName(n) = BaseName(call[t].args.filename))
        => /\ call[t].pc = "done"
           /\ call[t].nlaunch = 0
           /\ Returned(t)
           /\ call[t].result.value = Join(CacheDir, BaseName(call[t].args.filename))

----------------------------------------------------------------------------
(* C24: teardown *)

DelDone(t) == call[t].op = "__del__" /\ call[t].pc = "done"

\* C24: teardown raises no error, deletes the cache subdirectory and releases
\* the cache workspace, also when the subdirectory was removed before; a
\* second teardown changes nothing and raises no error.
C24_TeardownReleasesTheWorkspace ==
    \A t \in Threads :
        DelDone(t)
        => /\ Returned(t)
           /\ ~session.subdir /\ cache = EmptyCache
           /\ ~session.workspace
           /\ ~call[t].pre.session.finalizer => session = call[t].pre.session

----------------------------------------------------------------------------
(* C25, C27: list_fileserver_files and the output of the jobs *)

ListCall(t) == call[t].op = "list_fileserver_files"
ListDone(t) == ListCall(t) /\ call[t].pc = "done"

\* C25: when the wait of list_fileserver_files exceeds its timeout while the
\* list job is still running, the call is over without waiting for the job
\* to end: the timeout is what it reports to the caller, not a failure of
\* the job and not the output of the job.
C25_ListTimeoutIsReported ==
    \A t \in Threads :
        (ListCall(t) /\ call[t].timed_out)
        => /\ call[t].pc = "done"
           /\ call[t].result.kind = "timeout"
           /\ jobs[call[t].job].drained = 0

\* the jobs of the calls that hand over output
OutputJobs == { j \in LiveJobs : jobs[j].cmd \in { "dtrsync", "dtls" } }

\* the call that launched job j is past its wait on it
WaitReturned(j) ==
    \E t \in Threads :
        /\ call[t].job = j
        /\ call[t].pc \in { "dry_communicate", "communicate", "done" }

----------------------------------------------------------------------------
(* C26: two get_file calls at the same time *)

\* the call of t has launched a copy job that has ended with exit code 0
CopiedOk(t) ==
    /\ GetCall(t) /\ call[t].nlaunch = 1
    /\ jobs[call[t].job].state = "DONE" /\ jobs[call[t].job].exit = 0

\* no call is in progress for another name and none has staged another name
SameName(f) ==
    /\ \A u \in Threads : GetCall(u) => call[u].args.filename = f
    /\ \A n \in FileNames \ { f } : staged[n] = NoStage

\* C26: two get_file calls for the same name that run at the same time and
\* miss every local check launch a copy job each into the same cache target;
\* in every interleaving, once one of the jobs has ended with exit code 0
\* the cache entry is a copy of the fileserver file, the call whose job
\* ended with 0 returns the cache path, and a get_file of the name that
\* starts when the entry is there returns the cache path without a job.
C26_EitherCopyLeavesAValidEntry ==
    \A t \in Threads :
        LET f == call[t].args.filename
        IN  /\ (CopiedOk(t) /\ SameName(f))
                => /\ IsFile(cache, BaseName(f))
                   /\ cache[BaseName(f)].c = fileserver[f].c
                   /\ call[t].pc = "done"
                        => Returned(t) /\ call[t].result.value = Join(CacheDir, BaseName(f))
            /\ (GetCall(t) /\ IsFile(call[t].pre.cache, BaseName(f)))
                => /\ call[t].nlaunch = 0
                   /\ call[t].pc = "done" /\ Returned(t)
                   /\ call[t].result.value = Join(CacheDir, BaseName(f))

----------------------------------------------------------------------------
(* C28: the errors of sync_with_fileserver *)

\* C28: for every pair of roots of any depth, every direction and every
\* combination of flags, sync_with_fileserver launches exactly one dtrsync
\* job and then either returns what the job put out or raises
\* ConfirmationRequiredException; it ends in no other error.
C28_OnlyConfirmationRequiredIsRaised ==
    \A t \in Threads :
        SyncCall(t)
        => /\ call[t].nlaunch = 1
           /\ jobs[call[t].job].cmd = "dtrsync"
           /\ call[t].pc = "done"
                => \/ Returned(t) /\ call[t].result.value = jobs[call[t].job].out
                   \/ Raised(t, "ConfirmationRequiredException")

----------------------------------------------------------------------------
(* C29: what get_file returns *)

====
